---- MODULE Spec2Model ----
(***************************************************************************)
(* Spectator client of the roulette table: the reconnecting WebSocket hook *)
(* (useWebSocket), the zustand game store it writes to (useGameStore) and   *)
(* the startup leaderboard fetch of SpectatorDashboard, and the canvas      *)
(* wheel (RouletteWheel) with its animation loop.                          *)
(***************************************************************************)
EXTENDS Integers, Sequences, FiniteSets, TLC

VARIABLES
    lifecycle,          \* position of the hook's effect: "init", "mounted", "disposed"
    mountedRef,         \* mountedRef.current
    wsRef,              \* wsRef.current: a socket id, or NoSocket for null
    reconnectTimerRef,  \* reconnectTimerRef.current: a timer id, or NoTimer for undefined
    sock,               \* the WebSocket objects: readyState and whether onclose is set
    timers,             \* the setTimeout(connect, delay) timers that are pending: id -> delay
    store,              \* the state of useGameStore
    recv,               \* history: the events handed to the store's callers, in order
    rest,               \* the startup fetch: "idle", "pending", "done", "failed"
    manualConnects,     \* number of connect() calls made from outside the hook
    lastEvent,          \* history: the handler that ran last
    wheel,              \* RouletteWheel: its props and its refs
    travel              \* history of the wheel: frames, renders, the result homed on

hookVars == <<lifecycle, mountedRef, wsRef, reconnectTimerRef, sock, timers, store, recv,
              rest, manualConnects, lastEvent>>

wheelVars == <<wheel, travel>>

vars == <<lifecycle, mountedRef, wsRef, reconnectTimerRef, sock, timers, store, recv,
          rest, manualConnects, lastEvent, wheel, travel>>

connVars == <<lifecycle, mountedRef, wsRef, reconnectTimerRef, sock, timers, manualConnects>>

---------------------------------------------------------------------------
(* Bounds of the model *)

MaxManualConnects == 1
MaxFrames == 2
MaxStoreFrames == 3
MaxRounds == 22
MaxDuplicates == 1
MaxReplayFrames == 3
MaxRenders == 2
MaxSpinFrames == 30
MaxDashboardFrames == 3

(* Program constants *)

RECONNECT_DELAY == 3000
HISTORY_CAP == 20
ChatCap == 50

---------------------------------------------------------------------------
(* Sockets and timers *)

NoSocket == 0
NoTimer == 0
SocketIds == 1 .. (2 * MaxManualConnects + 4)
TimerIds == 1 .. (MaxManualConnects + 2)

Live == {"CONNECTING", "OPEN"}
FreeSlot == [readyState |-> "FREE", onclose |-> FALSE]

Min(S) == CHOOSE x \in S : \A y \in S : x <= y

\* WebSocket.close(): a connecting or open socket starts closing; its close event
\* comes later. On a closing or closed socket the call does nothing.
CloseSocket(socks, s) ==
    IF socks[s].readyState \in Live
    THEN [socks EXCEPT ![s].readyState = "CLOSING"]
    ELSE socks

\* A socket that is closed and that nothing refers to any more is collected.
Collect(socks, s) ==
    IF socks[s].readyState = "CLOSED" THEN [socks EXCEPT ![s] = FreeSlot] ELSE socks

\* As RetireExisting, without existing.close()
RetireWithoutClose(socks, ref) ==
    IF ref # NoSocket THEN Collect([socks EXCEPT ![ref].onclose = FALSE], ref) ELSE socks

\* As RetireExisting, without existing.onclose = null
RetireArmed(socks, ref) ==
    IF ref # NoSocket THEN Collect(CloseSocket(socks, ref), ref) ELSE socks

\* connect(): "Close any existing connection first to prevent duplicates".
RetireExisting(socks, ref) ==
    IF ref # NoSocket
    THEN Collect(CloseSocket([socks EXCEPT ![ref].onclose = FALSE], ref), ref)
    ELSE socks

\* new WebSocket(wsUrl) with its four handlers set.
NewSocket(socks) == Min({s \in SocketIds : socks[s].readyState = "FREE"})

\* As ConnectGuard, without the mountedRef test
ConnectUnguarded(mounted) == TRUE

\* connect() returns at once when the hook is unmounted.
ConnectGuard(mounted) == mounted

\* connect(), called by the effect, by a reconnect timer or from outside.
connect ==
    IF ~ConnectGuard(mountedRef)
    THEN UNCHANGED <<wsRef, sock>>
    ELSE LET ws == NewSocket(sock)
             retired == RetireExisting(sock, wsRef)
         IN  /\ sock' = [retired EXCEPT ![ws] = [readyState |-> "CONNECTING", onclose |-> TRUE]]
             /\ wsRef' = ws

---------------------------------------------------------------------------
(* The game store (useGameStore) *)

Undefined == -1      \* a missing number: data.x of a payload without x

\* BetRecord; bet_value is optional
Bet(bot, type, value, amount, payout) ==
    [bot_id |-> bot, bet_type |-> type, bet_value |-> value, amount |-> amount,
     payout |-> payout, is_winner |-> payout > 0]

InitialStore ==
    [phase |-> "idle", timeRemaining |-> 0, roundNumber |-> 0, tableId |-> "main",
     seatedBots |-> <<>>, currentBets |-> <<>>, latestResult |-> <<>>,
     resultHistory |-> <<>>, leaderboard |-> <<>>, chatMessages |-> <<>>,
     connected |-> FALSE]

\* The ViewModel without the transport's own flag
View(st) == [f \in (DOMAIN st) \ {"connected"} |-> st[f]]

\* As Take, one entry too long
TakeOneMore(seq, n) == SubSeq(seq, 1, IF Len(seq) < n + 1 THEN Len(seq) ELSE n + 1)

Take(seq, n) == SubSeq(seq, 1, IF Len(seq) < n THEN Len(seq) ELSE n)
LastN(seq, n) == SubSeq(seq, IF Len(seq) > n THEN Len(seq) - n + 1 ELSE 1, Len(seq))

\* x || d for a phase name: the empty string stands for a missing or empty phase
OrIdle(phase) == IF phase = "" THEN "idle" ELSE phase

setPhase(st, phase, timeRemaining) ==
    [st EXCEPT !.phase = phase, !.timeRemaining = timeRemaining]

\* As shouldPreserveBets, never preserving
shouldPreserveNever(st, phase, incomingBets) == FALSE

\* As shouldPreserveBets, without the test of the phase
shouldPreserveAnyPhase(st, phase, incomingBets) ==
    /\ Len(incomingBets) = 0
    /\ Len(st.currentBets) > 0

shouldPreserveBets(st, phase, incomingBets) ==
    /\ phase \in {"spinning", "settlement"}
    /\ Len(incomingBets) = 0
    /\ Len(st.currentBets) > 0

setTableState(st, data) ==
    LET incomingBets == data.current_bets
        phase == OrIdle(data.phase)
    IN  [st EXCEPT !.phase = phase,
                   !.timeRemaining = data.time_remaining,
                   !.roundNumber = data.round_number,
                   !.seatedBots = data.seated_bots,
                   !.currentBets = IF shouldPreserveBets(st, phase, incomingBets)
                                   THEN st.currentBets ELSE incomingBets]

\* As SameBet, comparing the whole records
SameRecord(b, bet) == b = bet

\* the comparison of addBet: same bot, type, value, amount
SameBet(b, bet) ==
    /\ b.bot_id = bet.bot_id
    /\ b.bet_type = bet.bet_type
    /\ b.bet_value = bet.bet_value
    /\ b.amount = bet.amount

isDuplicate(st, bet) == \E i \in 1 .. Len(st.currentBets) : SameBet(st.currentBets[i], bet)

addBet(st, bet) ==
    IF isDuplicate(st, bet) THEN st
    ELSE [st EXCEPT !.currentBets = Append(st.currentBets, bet)]

\* state.latestResult?.round_number
LatestRoundNumber(st) ==
    IF st.latestResult = <<>> THEN Undefined ELSE st.latestResult[1].round_number

\* As setResult, leaving the shown bets in place
setResultKeepsBets(st, result) ==
    IF LatestRoundNumber(st) = result.round_number
    THEN st
    ELSE [st EXCEPT !.latestResult = <<result>>,
                    !.resultHistory = Take(<<result.result_number>> \o st.resultHistory,
                                           HISTORY_CAP)]

\* As setResult, without the test for an already recorded round
setResultAlways(st, result) ==
    [st EXCEPT !.latestResult = <<result>>,
               !.resultHistory = Take(<<result.result_number>> \o st.resultHistory,
                                      HISTORY_CAP),
               !.currentBets = <<>>]

\* As setResult, adding the number at the end of the history
setResultOldestFirst(st, result) ==
    IF LatestRoundNumber(st) = result.round_number THEN st
    ELSE [st EXCEPT !.latestResult = <<result>>,
                    !.resultHistory = Take(st.resultHistory \o <<result.result_number>>,
                                           HISTORY_CAP),
                    !.currentBets = <<>>]

setResult(st, result) ==
    IF LatestRoundNumber(st) = result.round_number THEN st
    ELSE [st EXCEPT !.latestResult = <<result>>,
                    !.resultHistory = Take(<<result.result_number>> \o st.resultHistory,
                                           HISTORY_CAP),
                    !.currentBets = <<>>]

\* As setLeaderboard, keeping the old entries of the bots the new list lacks
setLeaderboardMerged(st, entries) ==
    LET Listed(e) == \E i \in 1 .. Len(entries) : entries[i].bot_id = e.bot_id
    IN  [st EXCEPT !.leaderboard = entries \o SelectSeq(st.leaderboard, LAMBDA e : ~Listed(e))]

setLeaderboard(st, entries) == [st EXCEPT !.leaderboard = entries]

\* As setConnected, a lost connection also putting the table back to idle
setConnectedResetsPhase(st, connected) ==
    [st EXCEPT !.connected = connected, !.phase = IF connected THEN @ ELSE "idle"]

setConnected(st, connected) == [st EXCEPT !.connected = connected]

addToHistory(st, number) ==
    [st EXCEPT !.resultHistory = Take(<<number>> \o st.resultHistory, HISTORY_CAP)]

\* appends to the capped buffer, evicting the oldest entry
addChatMessage(st, msg) ==
    [st EXCEPT !.chatMessages = LastN(Append(st.chatMessages, msg), ChatCap)]

---------------------------------------------------------------------------
(* Frames of the push transport and the onmessage handler *)

Status(phase, time, round, bots, bets) ==
    [phase |-> phase, time_remaining |-> time, round_number |-> round,
     seated_bots |-> bots, current_bets |-> bets]

\* An optional field is <<>> when missing and <<v>> when present.
FMalformed == [wellFormed |-> FALSE, data |-> [type |-> ""]]
FUnknown == [wellFormed |-> TRUE, data |-> [type |-> "ping"]]
FInitial(status, lb) ==
    [wellFormed |-> TRUE,
     data |-> [type |-> "initial_state", table_status |-> status, leaderboard |-> lb]]
FPhase(phase, time, round, bots, bets) ==
    [wellFormed |-> TRUE,
     data |-> [type |-> "phase_change", phase |-> phase, time_remaining |-> time,
               round_number |-> round, seated_bots |-> bots, current_bets |-> bets]]
FNewBet(bet) == [wellFormed |-> TRUE, data |-> [type |-> "new_bet", bet |-> bet]]
FChat(bot, message) ==
    [wellFormed |-> TRUE,
     data |-> [type |-> "chat_message", bot_id |-> bot, bot_name |-> bot,
               bot_avatar_seed |-> bot, message |-> message]]
FResult(round, number, bets, lb) ==
    [wellFormed |-> TRUE,
     data |-> [type |-> "round_result", round_id |-> round, round_number |-> round,
               result_number |-> number, result_color |-> "", bets |-> bets,
               total_wagered |-> 0, total_payout |-> 0, leaderboard |-> lb]]

KnownTypes == {"initial_state", "phase_change", "new_bet", "chat_message", "round_result"}

\* As OnInitialState, a table snapshot also forgetting the latest result
OnInitialStateResetsResult(st, data) ==
    LET s1 == IF data.table_status # <<>>
              THEN [setTableState(st, data.table_status[1]) EXCEPT !.latestResult = <<>>]
              ELSE st
    IN  IF data.leaderboard # <<>> THEN setLeaderboard(s1, data.leaderboard[1]) ELSE s1

OnInitialState(st, data) ==
    LET s1 == IF data.table_status # <<>> THEN setTableState(st, data.table_status[1]) ELSE st
    IN  IF data.leaderboard # <<>> THEN setLeaderboard(s1, data.leaderboard[1]) ELSE s1

OnPhaseChange(st, data) ==
    setTableState(setPhase(st, data.phase, data.time_remaining), data)

OnNewBet(st, data) == IF data.bet # <<>> THEN addBet(st, data.bet[1]) ELSE st

OnChatMessage(st, data, now) ==
    addChatMessage(st, [bot_id |-> data.bot_id, bot_name |-> data.bot_name,
                        bot_avatar_seed |-> data.bot_avatar_seed,
                        message |-> data.message, timestamp |-> now])

\* As OnRoundResult, leaving the phase to a phase_change
OnRoundResultKeepsPhase(st, data) ==
    LET s2 == setResult(st, [round_id |-> data.round_id,
                             round_number |-> data.round_number,
                             result_number |-> data.result_number,
                             result_color |-> data.result_color,
                             bets |-> data.bets,
                             total_wagered |-> data.total_wagered,
                             total_payout |-> data.total_payout])
    IN  IF data.leaderboard # <<>> THEN setLeaderboard(s2, data.leaderboard[1]) ELSE s2

OnRoundResult(st, data) ==
    LET s1 == setPhase(st, "settlement", 0)
        s2 == setResult(s1, [round_id |-> data.round_id,
                             round_number |-> data.round_number,
                             result_number |-> data.result_number,
                             result_color |-> data.result_color,
                             bets |-> data.bets,
                             total_wagered |-> data.total_wagered,
                             total_payout |-> data.total_payout])
    IN  IF data.leaderboard # <<>> THEN setLeaderboard(s2, data.leaderboard[1]) ELSE s2

\* As Dispatch, with a default branch that resets the phase
DispatchWithDefault(st, data, now) ==
    CASE data.type = "initial_state" -> OnInitialState(st, data)
      [] data.type = "phase_change" -> OnPhaseChange(st, data)
      [] data.type = "new_bet" -> OnNewBet(st, data)
      [] data.type = "chat_message" -> OnChatMessage(st, data, now)
      [] data.type = "round_result" -> OnRoundResult(st, data)
      [] OTHER -> setPhase(st, "idle", 0)

\* the switch on data.type
Dispatch(st, data, now) ==
    CASE data.type = "initial_state" -> OnInitialState(st, data)
      [] data.type = "phase_change" -> OnPhaseChange(st, data)
      [] data.type = "new_bet" -> OnNewBet(st, data)
      [] data.type = "chat_message" -> OnChatMessage(st, data, now)
      [] data.type = "round_result" -> OnRoundResult(st, data)
      [] OTHER -> st

\* As OnMessage, with a parse failure treated as a lost connection
OnMessageFailsClosed(st, frame, now) ==
    IF frame.wellFormed THEN Dispatch(st, frame.data, now) ELSE setConnected(st, FALSE)

\* ws.onmessage: JSON.parse throws on a malformed frame; the catch logs and drops it
OnMessage(st, frame, now) ==
    IF frame.wellFormed THEN Dispatch(st, frame.data, now) ELSE st

\* the body of fetchLeaderboard once the response is there
OnLeaderboardResponse(st, response) ==
    IF response # <<>> THEN setLeaderboard(st, response[1]) ELSE st

---------------------------------------------------------------------------
(* The wheel.  Angles are integers: one unit is a millionth of a radian,  *)
(* with the full turn rounded to a multiple of 4 * 37 units.               *)

FULL_TURN == 6283192
POCKETS == 37
MIN_ROTATIONS == 3
EPSILON == 1000
FREE_SPIN_STEP == 250000
EASE_PERCENT == 4

SEG_ANGLE == FULL_TURN \div POCKETS
POINTER_ANGLE == -(FULL_TURN \div 4)

WHEEL_NUMBERS ==
    <<0, 32, 15, 19, 4, 21, 2, 25, 17, 34, 6, 27, 13, 36, 11, 30, 8, 23, 10, 5, 24, 16, 33,
      1, 20, 14, 31, 9, 22, 18, 29, 7, 28, 12, 35, 3, 26>>

\* WHEEL_NUMBERS.indexOf(num), counting from 0
indexOf(num) ==
    IF \E i \in 1 .. Len(WHEEL_NUMBERS) : WHEEL_NUMBERS[i] = num
    THEN (CHOOSE i \in 1 .. Len(WHEEL_NUMBERS) : WHEEL_NUMBERS[i] = num) - 1
    ELSE -1

Abs(x) == IF x < 0 THEN -x ELSE x

\* while (target < floor) target += 2 * PI
RECURSIVE AddTurns(_, _)
AddTurns(target, floor) ==
    IF target < floor THEN AddTurns(target + FULL_TURN, floor) ELSE target

\* As getTargetAngle, turning forward to the pocket without the extra rotations
getTargetAngleNearest(num, currentAngle) ==
    LET idx == indexOf(num)
    IN  IF idx = -1 THEN currentAngle
        ELSE AddTurns(POINTER_ANGLE - idx * SEG_ANGLE - SEG_ANGLE \div 2, currentAngle)

\* As getTargetAngle, without the test of indexOf's answer
getTargetAngleUnguarded(num, currentAngle) ==
    AddTurns(POINTER_ANGLE - indexOf(num) * SEG_ANGLE - SEG_ANGLE \div 2,
             currentAngle + FULL_TURN * MIN_ROTATIONS)

\* As getTargetAngle, going one turn further than the loop requires
getTargetAngleExtraTurn(num, currentAngle) ==
    LET idx == indexOf(num)
    IN  IF idx = -1 THEN currentAngle
        ELSE AddTurns(POINTER_ANGLE - idx * SEG_ANGLE - SEG_ANGLE \div 2,
                      currentAngle + FULL_TURN * MIN_ROTATIONS) + FULL_TURN

getTargetAngle(num, currentAngle) ==
    LET idx == indexOf(num)
    IN  IF idx = -1 THEN currentAngle
        ELSE LET baseTarget == POINTER_ANGLE - idx * SEG_ANGLE - SEG_ANGLE \div 2
                 fullRotations == FULL_TURN * MIN_ROTATIONS
             IN  AddTurns(baseTarget, currentAngle + fullRotations)

\* remaining * 0.04
Ease(remaining) == (remaining * EASE_PERCENT) \div 100

\* An optional value is <<>> for null and <<v>> otherwise.
InitialWheel ==
    [mounted |-> FALSE, spinning |-> FALSE, resultNumber |-> <<>>,
     angleRef |-> 0, spinningRef |-> FALSE, targetAngleRef |-> <<>>]

\* As Animate, ending the homing where the wheel is, without the snap
AnimateStopsShort(w) ==
    IF w.targetAngleRef # <<>>
    THEN LET remaining == w.targetAngleRef[1] - w.angleRef
         IN  IF Abs(remaining) < EPSILON
             THEN [w EXCEPT !.targetAngleRef = <<>>, !.spinningRef = FALSE]
             ELSE [w EXCEPT !.angleRef = @ + Ease(remaining)]
    ELSE IF w.spinningRef
         THEN [w EXCEPT !.angleRef = @ + FREE_SPIN_STEP]
         ELSE w

\* As Animate, the free spin not being the else branch of the homing
AnimateBoth(w) ==
    LET homed == IF w.targetAngleRef # <<>>
                 THEN LET target == w.targetAngleRef[1]
                          remaining == target - w.angleRef
                      IN  IF Abs(remaining) < EPSILON
                          THEN [w EXCEPT !.angleRef = target, !.targetAngleRef = <<>>,
                                         !.spinningRef = FALSE]
                          ELSE [w EXCEPT !.angleRef = @ + Ease(remaining)]
                 ELSE w
    IN  IF w.spinningRef THEN [homed EXCEPT !.angleRef = @ + FREE_SPIN_STEP] ELSE homed

\* As Animate, ending the homing only when nothing at all remains
AnimateExactOnly(w) ==
    IF w.targetAngleRef # <<>>
    THEN LET target == w.targetAngleRef[1]
             remaining == target - w.angleRef
         IN  IF remaining = 0
             THEN [w EXCEPT !.angleRef = target, !.targetAngleRef = <<>>,
                            !.spinningRef = FALSE]
             ELSE [w EXCEPT !.angleRef = @ + Ease(remaining)]
    ELSE IF w.spinningRef
         THEN [w EXCEPT !.angleRef = @ + FREE_SPIN_STEP]
         ELSE w

\* The animation logic at the end of draw()
Animate(w) ==
    IF w.targetAngleRef # <<>>
    THEN LET target == w.targetAngleRef[1]
             remaining == target - w.angleRef
         IN  IF Abs(remaining) < EPSILON
             THEN [w EXCEPT !.angleRef = target, !.targetAngleRef = <<>>,
                            !.spinningRef = FALSE]
             ELSE [w EXCEPT !.angleRef = @ + Ease(remaining)]
    ELSE IF w.spinningRef
         THEN [w EXCEPT !.angleRef = @ + FREE_SPIN_STEP]
         ELSE w

\* As StartSpinning, leaving a target in place
StartSpinningKeepsTarget(w) ==
    IF w.spinning THEN [w EXCEPT !.spinningRef = TRUE] ELSE w

\* The effect on [spinning]: "Start spinning"
StartSpinning(w) ==
    IF w.spinning THEN [w EXCEPT !.spinningRef = TRUE, !.targetAngleRef = <<>>] ELSE w

\* Whether the effect on [spinning, resultNumber] sets a target
SetsTarget(w) == ~w.spinning /\ w.resultNumber # <<>>

\* As AnimateToTarget, computing the target from the angle of a wheel that has not moved
AnimateToTargetFromStart(w) ==
    IF SetsTarget(w)
    THEN [w EXCEPT !.targetAngleRef = <<getTargetAngle(w.resultNumber[1], 0)>>]
    ELSE w

\* The effect on [spinning, resultNumber]: "animate to target"
AnimateToTarget(w) ==
    IF SetsTarget(w)
    THEN [w EXCEPT !.targetAngleRef = <<getTargetAngle(w.resultNumber[1], w.angleRef)>>]
    ELSE w

\* History of the wheel: frames drawn since the last render, renders after
\* the first, the result number the target was last computed for and the
\* angle the wheel had then.
InitialTravel == [age |-> 0, renders |-> 0, homingOn |-> <<>>, angleAtSupply |-> 0]

Supplied(w, tr) ==
    IF SetsTarget(w)
    THEN [tr EXCEPT !.age = 0, !.homingOn = w.resultNumber, !.angleAtSupply = w.angleRef]
    ELSE [tr EXCEPT !.age = 0, !.homingOn = IF w.spinning THEN <<>> ELSE @]

---------------------------------------------------------------------------
(* The operations *)

Init ==
    /\ lifecycle = "init"
    /\ mountedRef = TRUE
    /\ wsRef = NoSocket
    /\ reconnectTimerRef = NoTimer
    /\ sock = [s \in SocketIds |-> FreeSlot]
    /\ timers = {}
    /\ store = InitialStore
    /\ recv = <<>>
    /\ rest = "idle"
    /\ manualConnects = 0
    /\ lastEvent = "none"
    /\ wheel = InitialWheel
    /\ travel = InitialTravel

\* The component mounts: the hook's effect runs (mountedRef.current = true; connect())
\* and the dashboard's effect starts fetchLeaderboard().
Mount ==
    /\ lifecycle = "init"
    /\ lifecycle' = "mounted"
    /\ mountedRef' = TRUE
    /\ connect
    /\ rest' = "pending"
    /\ lastEvent' = "mount"
    /\ UNCHANGED <<reconnectTimerRef, timers, store, recv, manualConnects>>
    /\ UNCHANGED wheelVars

\* connect() called from outside while a hook instance exists
Connect ==
    /\ lifecycle # "init"
    /\ manualConnects < MaxManualConnects
    /\ manualConnects' = manualConnects + 1
    /\ connect
    /\ lastEvent' = "connect"
    /\ UNCHANGED <<lifecycle, mountedRef, reconnectTimerRef, timers, store, recv, rest>>
    /\ UNCHANGED wheelVars

\* ws.onopen
WsOpen(s) ==
    /\ sock[s].readyState = "CONNECTING"
    /\ sock' = [sock EXCEPT ![s].readyState = "OPEN"]
    /\ store' = setConnected(store, TRUE)
    /\ lastEvent' = "open"
    /\ UNCHANGED <<lifecycle, mountedRef, wsRef, reconnectTimerRef, timers, recv, rest,
                   manualConnects>>
    /\ UNCHANGED wheelVars

IsWs(e) == e.src = "ws"
FramesReceived == Len(SelectSeq(recv, IsWs))

\* ws.onmessage; the browser delivers message events of open sockets only
WsMessage(s, frame, now) ==
    /\ sock[s].readyState = "OPEN"
    /\ store' = OnMessage(store, frame, now)
    /\ recv' = Append(recv, [src |-> "ws", frame |-> frame, now |-> now,
                             tracked |-> (mountedRef /\ wsRef = s)])
    /\ lastEvent' = "message"
    /\ UNCHANGED <<lifecycle, mountedRef, wsRef, reconnectTimerRef, sock, timers, rest,
                   manualConnects>>
    /\ UNCHANGED wheelVars

NewTimer == Min({t \in TimerIds : t # reconnectTimerRef /\ \A x \in timers : x.id # t})

\* As ShouldReconnect, never reconnecting
ReconnectNever(mounted, ref, ws) == FALSE

\* "Only reconnect if still mounted and this is still the active connection"
ShouldReconnect(mounted, ref, ws) == mounted /\ ref = ws

\* The close event of socket s; ws.onclose runs unless it was set to null.
WsClose(s) ==
    /\ sock[s].readyState \in Live \cup {"CLOSING"}
    /\ LET closed == [sock EXCEPT ![s].readyState = "CLOSED"]
       IN  sock' = IF wsRef = s THEN closed ELSE Collect(closed, s)
    /\ store' = IF sock[s].onclose THEN setConnected(store, FALSE) ELSE store
    /\ IF sock[s].onclose /\ ShouldReconnect(mountedRef, wsRef, s)
       THEN LET t == NewTimer
            IN  /\ timers' = timers \cup {[id |-> t, delay |-> RECONNECT_DELAY]}
                /\ reconnectTimerRef' = t
       ELSE UNCHANGED <<timers, reconnectTimerRef>>
    /\ lastEvent' = "close"
    /\ UNCHANGED <<lifecycle, mountedRef, wsRef, recv, rest, manualConnects>>
    /\ UNCHANGED wheelVars

\* As WsError, with the error handler scheduling a reconnect as well
WsErrorReconnects(s) ==
    /\ sock[s].readyState \in Live \cup {"CLOSING"}
    /\ LET t == NewTimer
       IN  /\ timers' = timers \cup {[id |-> t, delay |-> RECONNECT_DELAY]}
           /\ reconnectTimerRef' = t
    /\ lastEvent' = "error"
    /\ UNCHANGED <<lifecycle, mountedRef, wsRef, sock, store, recv, rest, manualConnects>>
    /\ UNCHANGED wheelVars

\* ws.onerror: console.error only
WsError(s) ==
    /\ sock[s].readyState \in Live \cup {"CLOSING"}
    /\ lastEvent' = "error"
    /\ UNCHANGED <<lifecycle, mountedRef, wsRef, reconnectTimerRef, sock, timers, store,
                   recv, rest, manualConnects>>
    /\ UNCHANGED wheelVars

\* A pending setTimeout(connect, 3000) fires.
TimerFire(t) ==
    /\ t \in timers
    /\ timers' = timers \ {t}
    /\ connect
    /\ lastEvent' = "timer"
    /\ UNCHANGED <<lifecycle, mountedRef, reconnectTimerRef, store, recv, rest,
                   manualConnects>>
    /\ UNCHANGED wheelVars

\* clearTimeout(reconnectTimerRef.current)
ClearTimeout(pending, ref) == {t \in pending : t.id # ref}

\* The cleanup of the hook's effect
Teardown ==
    /\ lifecycle = "mounted"
    /\ lifecycle' = "disposed"
    /\ mountedRef' = FALSE
    /\ timers' = ClearTimeout(timers, reconnectTimerRef)
    /\ sock' = RetireExisting(sock, wsRef)
    /\ wsRef' = NoSocket
    /\ lastEvent' = "teardown"
    /\ UNCHANGED <<reconnectTimerRef, store, recv, rest, manualConnects>>
    /\ UNCHANGED wheelVars

\* fetchLeaderboard: the response arrives
FetchLeaderboardDone(response) ==
    /\ rest = "pending"
    /\ rest' = "done"
    /\ store' = OnLeaderboardResponse(store, response)
    /\ recv' = Append(recv, [src |-> "rest", frame |-> response, now |-> 0, tracked |-> TRUE])
    /\ lastEvent' = "fetched"
    /\ UNCHANGED connVars
    /\ UNCHANGED wheelVars

\* fetchLeaderboard: the request fails; the catch logs
FetchLeaderboardFailed ==
    /\ rest = "pending"
    /\ rest' = "failed"
    /\ lastEvent' = "fetchFailed"
    /\ UNCHANGED <<connVars, store, recv>>
    /\ UNCHANGED wheelVars

\* The wheel mounts with its first props: the canvas effect calls draw(), then
\* the two effects on the props run.
WheelMount(spinning, resultNumber) ==
    /\ ~wheel.mounted
    /\ LET w == Animate([wheel EXCEPT !.mounted = TRUE, !.spinning = spinning,
                                      !.resultNumber = resultNumber])
       IN  /\ wheel' = AnimateToTarget(StartSpinning(w))
           /\ travel' = Supplied(w, travel)
    /\ UNCHANGED hookVars

\* The wheel renders with new props: the effects whose dependencies changed run.
WheelRender(spinning, resultNumber) ==
    /\ wheel.mounted
    /\ <<spinning, resultNumber>> # <<wheel.spinning, wheel.resultNumber>>
    /\ LET w == [wheel EXCEPT !.spinning = spinning, !.resultNumber = resultNumber]
           w1 == IF spinning # wheel.spinning THEN StartSpinning(w) ELSE w
       IN  /\ wheel' = AnimateToTarget(w1)
           /\ travel' = [Supplied(w, travel) EXCEPT !.renders = @ + 1]
    /\ UNCHANGED hookVars

\* One animation frame: draw() runs and requests the next frame.
WheelFrame ==
    /\ wheel.mounted
    /\ wheel' = Animate(wheel)
    /\ travel' = IF wheel' = wheel THEN travel ELSE [travel EXCEPT !.age = @ + 1]
    /\ UNCHANGED hookVars

---------------------------------------------------------------------------
(* Inputs *)

Timestamps == {1, 2}

B1 == Bet("rgpt", "black", Undefined, 25, 0)
B1Paid == Bet("rgpt", "black", Undefined, 25, 50)
B2 == Bet("claw", "straight", 17, 10, 0)

LbA == <<[bot_id |-> "rgpt", balance |-> 1025]>>
LbB == <<[bot_id |-> "claw", balance |-> 990], [bot_id |-> "rgpt", balance |-> 975]>>

\* Frames of the whole system: one malformed, one of an unknown type, one bet, one result
Frames ==
    { FMalformed, FUnknown,
      FNewBet(<<B1>>),
      FResult(47, 17, <<B1Paid>>, <<>>) }

\* Frames of the store's reconciliation: every type, repeated and conflicting deliveries
StoreFrames ==
    { FMalformed, FUnknown,
      FNewBet(<<B1>>), FNewBet(<<B1Paid>>), FNewBet(<<B2>>), FNewBet(<<>>),
      FPhase("spinning", 5, 47, <<"rgpt">>, <<>>),
      FPhase("settlement", 0, 47, <<"rgpt">>, <<>>),
      FPhase("betting", 30, 48, <<"rgpt", "claw">>, <<>>),
      FPhase("betting", 20, 48, <<"rgpt", "claw">>, <<B2>>),
      FResult(47, 17, <<B1Paid>>, <<LbA>>),
      FResult(48, 0, <<>>, <<>>),
      FInitial(<<Status("betting", 10, 48, <<"rgpt", "claw">>, <<B2>>)>>, <<LbA>>),
      FInitial(<<Status("spinning", 3, 47, <<"rgpt">>, <<>>)>>, <<>>),
      FInitial(<<>>, <<LbB>>),
      FChat("rgpt", "all in") }

Responses == { <<LbB>> }

ArrivalTimes(frame) ==
    IF frame.wellFormed /\ frame.data.type = "chat_message" THEN Timestamps ELSE {0}

Next ==
    \/ Mount
    \/ Connect
    \/ \E s \in SocketIds : WsOpen(s)
    \/ \E s \in SocketIds, f \in Frames : \E now \in ArrivalTimes(f) :
            FramesReceived < MaxFrames /\ WsMessage(s, f, now)
    \/ \E s \in SocketIds : WsClose(s)
    \/ \E s \in SocketIds : WsError(s)
    \/ \E t \in timers : TimerFire(t)
    \/ Teardown
    \/ \E r \in Responses : FetchLeaderboardDone(r)
    \/ FetchLeaderboardFailed

Spec == Init /\ [][Next]_vars

\* The connection manager alone: no frame arrives and the startup fetch stays pending
NextConnection ==
    \/ Mount
    \/ Connect
    \/ \E s \in SocketIds : WsOpen(s)
    \/ \E s \in SocketIds : WsClose(s)
    \/ \E s \in SocketIds : WsError(s)
    \/ \E t \in timers : TimerFire(t)
    \/ Teardown

\* The reconnect timers are timers of the event loop: a pending one fires.
SpecLive == Init /\ [][NextConnection]_vars /\ WF_vars(\E t \in timers : TimerFire(t))

\* The store behind one open connection: the state after Mount and WsOpen(1)
StoreInit ==
    /\ lifecycle = "mounted"
    /\ mountedRef = TRUE
    /\ wsRef = 1
    /\ reconnectTimerRef = NoTimer
    /\ sock = [s \in SocketIds |->
                 IF s = 1 THEN [readyState |-> "OPEN", onclose |-> TRUE] ELSE FreeSlot]
    /\ timers = {}
    /\ store = setConnected(InitialStore, TRUE)
    /\ recv = <<>>
    /\ rest = "pending"
    /\ manualConnects = 0
    /\ lastEvent = "open"
    /\ wheel = InitialWheel
    /\ travel = InitialTravel

StoreNext ==
    \/ \E f \in StoreFrames : \E now \in ArrivalTimes(f) :
            FramesReceived < MaxStoreFrames /\ WsMessage(wsRef, f, now)
    \/ \E r \in Responses : FetchLeaderboardDone(r)
    \/ FetchLeaderboardFailed

SpecStore == StoreInit /\ [][StoreNext]_vars

\* Round 47 across connection drops: its result, and the snapshot the server
\* sends for the table in that round, on whichever connection is open.
Result47 == FResult(47, 17, <<B1Paid>>, <<LbA>>)
Snapshot47 == FInitial(<<Status("settlement", 0, 47, <<"rgpt">>, <<>>)>>, <<LbA>>)
Betting48 == FPhase("betting", 30, 48, <<"rgpt", "claw">>, <<>>)
ReplayFrames == { Result47, Snapshot47, Betting48 }

ReplayNext ==
    \/ NextConnection
    \/ \E s \in SocketIds, f \in ReplayFrames :
            FramesReceived < MaxReplayFrames /\ WsMessage(s, f, 0)

SpecReplay == Init /\ [][ReplayNext]_vars

\* The wheel alone, its two props changing at will.  A render comes when the
\* wheel is at rest or after a number of frames in ChangePoints; a free spin
\* is followed for MaxSpinFrames frames.
ResultNumbers == { <<>>, <<0>>, <<17>>, <<26>>, <<37>> }
ChangePoints == { 0, 2, MaxSpinFrames }

AtRest(w) == w.targetAngleRef = <<>> /\ ~w.spinningRef
FreeSpinning(w) == w.targetAngleRef = <<>> /\ w.spinningRef

WheelTick ==
    /\ FreeSpinning(wheel) => travel.age < MaxSpinFrames
    /\ WheelFrame

WheelNextOver(numbers) ==
    \/ \E spinning \in BOOLEAN, resultNumber \in numbers :
            WheelMount(spinning, resultNumber)
    \/ \E spinning \in BOOLEAN, resultNumber \in numbers :
            /\ travel.renders < MaxRenders
            /\ AtRest(wheel) \/ travel.age \in ChangePoints
            /\ WheelRender(spinning, resultNumber)
    \/ WheelTick

WheelNext == WheelNextOver(ResultNumbers)

SpecWheel == Init /\ [][WheelNext]_vars

\* requestAnimationFrame(draw) at the end of every draw(): the next frame comes.
\* The props are no result, or 17.
LiveResultNumbers == { <<>>, <<17>> }
WheelNextLive == WheelNextOver(LiveResultNumbers)

SpecWheelLive == Init /\ [][WheelNextLive]_vars /\ WF_vars(WheelTick)

\* The dashboard: the wheel's props are computed from the store at every
\* render, spinning={phase === 'spinning'} and
\* resultNumber={latestResult?.result_number ?? null}.
Props(st) ==
    [spinning |-> st.phase = "spinning",
     resultNumber |-> IF st.latestResult = <<>> \/ st.latestResult[1].result_number = Undefined
                      THEN <<>>
                      ELSE <<st.latestResult[1].result_number>>]

\* The wheel has rendered with the props of the store's present state
InSync ==
    /\ wheel.mounted
    /\ wheel.spinning = Props(store).spinning
    /\ wheel.resultNumber = Props(store).resultNumber

\* The dashboard's first render mounts the wheel.
DashboardMount == WheelMount(Props(store).spinning, Props(store).resultNumber)

\* A change of the store renders the dashboard again before anything else runs.
DashboardRender ==
    /\ ~InSync
    /\ WheelRender(Props(store).spinning, Props(store).resultNumber)

\* Rounds 47 and 48 as the server announces them
Spinning47 == FPhase("spinning", 5, 47, <<"rgpt">>, <<>>)
Spinning48 == FPhase("spinning", 5, 48, <<"rgpt", "claw">>, <<>>)
Settlement48 == FPhase("settlement", 0, 48, <<"rgpt", "claw">>, <<>>)
Result48 == FResult(48, 0, <<>>, <<>>)
DashboardFrames == { Spinning47, Result47, Betting48, Spinning48, Settlement48, Result48 }

\* A frame arrives while the wheel is at rest or a number of animation frames
\* in ChangePoints after the last render.
DashboardMessage(frame) ==
    /\ InSync
    /\ FramesReceived < MaxDashboardFrames
    /\ AtRest(wheel) \/ travel.age \in ChangePoints
    /\ WsMessage(wsRef, frame, 0)

DashboardTick == InSync /\ WheelTick

DashboardNext ==
    \/ DashboardMount
    \/ DashboardRender
    \/ \E f \in DashboardFrames : DashboardMessage(f)
    \/ DashboardTick

SpecDashboard == StoreInit /\ [][DashboardNext]_vars

\* A long run of rounds on one open connection: round r ends with the
\* round_result of round r, and the server may deliver the latest result again.
ResultOf(round) == (round * 7) % 37

RoundFrame(round) == FResult(round, ResultOf(round), <<>>, <<>>)

NextRoundResult ==
    LET round == IF store.latestResult = <<>> THEN 1
                 ELSE store.latestResult[1].round_number + 1
    IN  /\ round <= MaxRounds
        /\ WsMessage(wsRef, RoundFrame(round), 0)

RedeliverResult ==
    /\ store.latestResult # <<>>
    /\ FramesReceived - store.latestResult[1].round_number < MaxDuplicates
    /\ WsMessage(wsRef, RoundFrame(store.latestResult[1].round_number), 0)

HistoryNext == NextRoundResult \/ RedeliverResult

SpecHistory == StoreInit /\ [][HistoryNext]_vars

---------------------------------------------------------------------------
(* Properties of the connection manager *)

LiveSockets == {s \in SocketIds : sock[s].readyState \in Live}
TimerIdsPending == {t.id : t \in timers}
TrackedIs(states) == wsRef # NoSocket /\ sock[wsRef].readyState \in states

\* The close event of socket s fires in this step.
CloseEvent(s) ==
    /\ sock[s].readyState \in Live \cup {"CLOSING"}
    /\ sock'[s].readyState \in {"CLOSED", "FREE"}

\* A frame arrives on a socket in this step; Arrived is its entry of the history.
FrameArrives == Len(recv') = Len(recv) + 1 /\ recv'[Len(recv')].src = "ws"
Arrived == recv'[Len(recv')]

\* C1: in every reachable state at most one connection is connecting or open, and
\* it is the tracked one: every other connection was closed before a new one was
\* opened, whatever the order of connect() calls, socket events, timers and teardown.
C1_AtMostOneLive ==
    /\ Cardinality(LiveSockets) <= 1
    /\ \A s \in LiveSockets : s = wsRef

\* A reconnect timer fired after a connect() call made while it was pending had
\* opened a connection: that connection is closing and a new one is connecting.
C1_Witness ==
    /\ lastEvent = "timer"
    /\ manualConnects >= 1
    /\ store.connected
    /\ TrackedIs({"CONNECTING"})
    /\ \E s \in SocketIds : s # wsRef /\ sock[s].readyState = "CLOSING"

C3_ReconnectIffTracked ==
    [][\A s \in SocketIds : CloseEvent(s) =>
         /\ (timers' # timers) <=> (mountedRef /\ wsRef = s)
         /\ (timers' # timers) =>
              /\ timers \subseteq timers'
              /\ timers' \ timers = {[id |-> reconnectTimerRef', delay |-> RECONNECT_DELAY]}
         /\ (timers' = timers) => reconnectTimerRef' = reconnectTimerRef
      ]_vars

\* The close event of a retired socket has fired while the hook is mounted and its
\* replacement is live: nothing was scheduled.
C3_Witness ==
    /\ lastEvent = "close"
    /\ mountedRef
    /\ lifecycle = "mounted"
    /\ TrackedIs(Live)
    /\ timers = {}

Disconnected == lifecycle = "mounted" /\ ~TrackedIs(Live)

\* C5: while the hook is mounted, a state without a connecting or open tracked
\* connection always has a reconnect timer pending and leads to a new connection
\* attempt (or to teardown), given that pending timers fire.
C5_ReconnectIsLive ==
    /\ [](Disconnected => timers # {})
    /\ Disconnected ~> (lifecycle = "disposed" \/ TrackedIs({"CONNECTING"}))

\* The tracked connection has just closed: nothing is connected and the one
\* reconnect timer is pending.
C5_Witness ==
    /\ Disconnected
    /\ lastEvent = "close"
    /\ manualConnects = 0
    /\ ~store.connected
    /\ Cardinality(timers) = 1

\* C6: an error event changes neither the timers, the tracked connection, the
\* sockets nor the store; timers are added by close events only, one per event.
C6_ErrorSchedulesNothing ==
    [][/\ lastEvent' = "error" =>
            UNCHANGED <<timers, reconnectTimerRef, wsRef, sock, store, recv>>
       /\ ~(timers' \subseteq timers) =>
            /\ \E s \in SocketIds : CloseEvent(s)
            /\ Cardinality(timers') = Cardinality(timers) + 1
      ]_vars

\* An error event has fired on the live tracked connection: no timer is pending.
C6_Witness ==
    /\ lastEvent = "error"
    /\ mountedRef
    /\ TrackedIs(Live)
    /\ timers = {}

\* C7: a frame that fails to parse leaves the store, the sockets, the tracked
\* reference and the timers unchanged; the socket stays open for later frames.
C7_MalformedIsDropped ==
    [][(FrameArrives /\ ~Arrived.frame.wellFormed) =>
         /\ UNCHANGED <<store, sock, wsRef, timers, reconnectTimerRef>>
         /\ wsRef # NoSocket => sock'[wsRef].readyState = sock[wsRef].readyState
      ]_vars

\* A malformed frame was received and the bet that came after it on the same
\* connection was applied.
C7_Witness ==
    /\ Len(recv) = 2
    /\ recv[1].src = "ws" /\ ~recv[1].frame.wellFormed
    /\ recv[2].src = "ws" /\ recv[2].frame = FNewBet(<<B1>>)
    /\ manualConnects = 0
    /\ TrackedIs({"OPEN"})
    /\ store.currentBets = <<B1>>

\* C8: a well-formed frame whose type is not one of the five known types leaves
\* the store and the connection state unchanged.
C8_UnknownTypeIgnored ==
    [][(FrameArrives /\ Arrived.frame.wellFormed /\ Arrived.frame.data.type \notin KnownTypes)
         => UNCHANGED <<store, sock, wsRef, timers, reconnectTimerRef, mountedRef>>
      ]_vars

\* A frame of an unknown type arrived after a result had been applied.
C8_Witness ==
    /\ Len(recv) = 2
    /\ recv[1].src = "ws" /\ recv[1].frame.wellFormed
    /\ recv[1].frame.data.type = "round_result"
    /\ recv[2].src = "ws" /\ recv[2].frame = FUnknown
    /\ store.phase = "settlement"
    /\ store.latestResult # <<>>

\* The reconciliation of one recorded event
ApplyEvent(st, e) ==
    IF e.src = "rest" THEN OnLeaderboardResponse(st, e.frame)
    ELSE IF e.tracked THEN OnMessage(st, e.frame, e.now)
    ELSE st

RECURSIVE Replay(_)
Replay(n) == IF n = 0 THEN InitialStore ELSE ApplyEvent(Replay(n - 1), recv[n])

\* C9: the ViewModel is the fold, in receipt order, of the reconciliation
\* operations over the startup response and the frames received on the tracked
\* connection while mounted; a frame of a retired connection, or one received
\* after teardown, contributes nothing.
C9_InOrderFromTracked == View(store) = View(Replay(Len(recv)))

\* A result and then a bet were applied, in that order, the bet on the connection
\* that replaced a retired one which is still closing.
C9_Witness ==
    /\ Len(recv) = 2
    /\ recv[1].src = "ws" /\ recv[1].frame.data.type = "round_result"
    /\ recv[2].src = "ws" /\ recv[2].frame.data.type = "new_bet"
    /\ store.currentBets = <<B1>>
    /\ store.latestResult # <<>>
    /\ lastEvent = "message"
    /\ \E s \in SocketIds : s # wsRef /\ sock[s].readyState = "CLOSING"

---------------------------------------------------------------------------
(* Properties of the store *)

Identity(b) == <<b.bot_id, b.bet_type, b.bet_value, b.amount>>
Matching(bets, b) == {i \in 1 .. Len(bets) : Identity(bets[i]) = Identity(b)}
IsNewBet(e) ==
    /\ e.src = "ws" /\ e.frame.wellFormed
    /\ e.frame.data.type = "new_bet" /\ e.frame.data.bet # <<>>

\* C10: after a new_bet event is applied current_bets holds exactly one entry with
\* the bet's identity tuple (bot_id, bet_type, bet_value, amount), however often
\* the tuple was delivered; when an entry with the tuple was there already, the
\* store is unchanged, also when the other fields of the bet differ.
C10_NewBetIdempotent ==
    [][(FrameArrives /\ IsNewBet(Arrived)) =>
         LET b == Arrived.frame.data.bet[1]
         IN  /\ Cardinality(Matching(store'.currentBets, b)) = 1
             /\ Matching(store.currentBets, b) # {} => store' = store
      ]_vars

\* The same tuple was delivered three times, with different other fields; one entry.
C10_Witness ==
    /\ Len(recv) = 3
    /\ recv[1].src = "ws" /\ recv[1].frame = FNewBet(<<B1>>)
    /\ recv[2].src = "ws" /\ recv[2].frame = FNewBet(<<B1Paid>>)
    /\ recv[3].src = "ws" /\ recv[3].frame = FNewBet(<<B1>>)
    /\ store.currentBets = <<B1>>

\* The frame that arrives is a round_result, an initial_state, a phase_change, ...
ArrivesOfType(type) ==
    /\ FrameArrives
    /\ Arrived.frame.wellFormed
    /\ Arrived.frame.data.type = type

\* C11: a round_result whose round_number equals latest_result.round_number
\* leaves every field of the store as it was.
C11_DuplicateResultIgnored ==
    [][(/\ ArrivesOfType("round_result")
        /\ store.latestResult # <<>>
        /\ Arrived.frame.data.round_number = store.latestResult[1].round_number)
         => store' = store
      ]_vars

\* The frame that arrives is the one received just before it, delivered again.
Redelivered ==
    /\ FrameArrives
    /\ Len(recv) >= 1
    /\ recv[Len(recv)].src = "ws"
    /\ recv[Len(recv)].frame = Arrived.frame
    /\ recv[Len(recv)].tracked = Arrived.tracked

\* C12: the same round_result delivered twice in a row: the second delivery
\* changes neither latest_result nor result_history.
C12_DuplicateResultSuppressed ==
    [][(ArrivesOfType("round_result") /\ Redelivered) =>
         /\ store'.latestResult = store.latestResult
         /\ store'.resultHistory = store.resultHistory
      ]_vars

\* Result 17 of round 47 was delivered twice in a row: the history holds one 17.
C12_Witness ==
    /\ Len(recv) = 2
    /\ \A i \in 1 .. 2 : recv[i].src = "ws" /\ recv[i].frame = FResult(47, 17, <<B1Paid>>, <<LbA>>)
    /\ store.resultHistory = <<17>>
    /\ store.latestResult # <<>> /\ store.latestResult[1].round_number = 47

\* Positions of the log holding a round_result the tracked socket delivered
ResultEntries ==
    { i \in 1 .. Len(recv) :
        /\ recv[i].src = "ws"
        /\ recv[i].tracked
        /\ recv[i].frame.wellFormed
        /\ recv[i].frame.data.type = "round_result" }

\* Round numbers latest_result has held: each delivered result either became
\* latest_result or found its round number there already.
RoundsHeld == { recv[i].frame.data.round_number : i \in ResultEntries }

\* C13: every change of latest_result moves round_number to a value never
\* held before and not lower than the one it replaces.
C13_NeverRegressesOrRepeats ==
    [][store'.latestResult # store.latestResult =>
         /\ store'.latestResult # <<>>
         /\ store'.latestResult[1].round_number \notin RoundsHeld
         /\ store.latestResult # <<>> =>
              store'.latestResult[1].round_number >= store.latestResult[1].round_number
      ]_vars

\* C14: with current_bets non-empty, a phase_change to spinning or settlement
\* that carries an empty bet list leaves current_bets unchanged; a
\* phase_change to betting that carries an empty bet list clears it.
C14_BetsPreservedAcrossPhases ==
    [][(ArrivesOfType("phase_change") /\ Arrived.frame.data.current_bets = <<>>
          /\ store.currentBets # <<>>) =>
         /\ Arrived.frame.data.phase \in {"spinning", "settlement"} =>
              store'.currentBets = store.currentBets
         /\ Arrived.frame.data.phase = "betting" => store'.currentBets = <<>>
      ]_vars

\* A bet was shown, the wheel started spinning with an empty list (the bet
\* stayed), and the next betting phase with an empty list cleared it.
C14_Witness ==
    /\ Len(recv) = 3
    /\ \A i \in 1 .. 3 : recv[i].src = "ws"
    /\ recv[1].frame = FNewBet(<<B1>>)
    /\ recv[2].frame = FPhase("spinning", 5, 47, <<"rgpt">>, <<>>)
    /\ Replay(2).currentBets = <<B1>>
    /\ recv[3].frame = FPhase("betting", 30, 48, <<"rgpt", "claw">>, <<>>)
    /\ store.currentBets = <<>>

\* C15: a phase_change to betting makes current_bets exactly the incoming
\* list, whatever current_bets was, an empty incoming list included.
C15_BettingTakesIncoming ==
    [][(ArrivesOfType("phase_change") /\ Arrived.frame.data.phase = "betting") =>
         store'.currentBets = Arrived.frame.data.current_bets
      ]_vars

\* A bet was shown and kept while the wheel span; the betting phase_change
\* that carried another list replaced it.
C15_Witness ==
    /\ Len(recv) = 3
    /\ \A i \in 1 .. 3 : recv[i].src = "ws"
    /\ recv[1].frame = FNewBet(<<B1>>)
    /\ recv[2].frame = FPhase("spinning", 5, 47, <<"rgpt">>, <<>>)
    /\ recv[3].frame = FPhase("betting", 20, 48, <<"rgpt", "claw">>, <<B2>>)
    /\ store.currentBets = <<B2>>
    /\ store.phase = "betting"

\* The table snapshot an arriving initial_state carries
Snapshot == Arrived.frame.data.table_status[1]

\* C16: an initial_state snapshot replaces current_bets unconditionally, in
\* every snapshot phase and whatever current_bets was; phase, time_remaining,
\* round_number and seated_bots equal the snapshot's values.
C16_SnapshotOverwritesBets ==
    [][(ArrivesOfType("initial_state") /\ Arrived.frame.data.table_status # <<>>) =>
         /\ store'.currentBets = Snapshot.current_bets
         /\ store'.phase = Snapshot.phase
         /\ store'.timeRemaining = Snapshot.time_remaining
         /\ store'.roundNumber = Snapshot.round_number
         /\ store'.seatedBots = Snapshot.seated_bots
      ]_vars

\* C16, amended: the snapshot's bet list replaces current_bets except when the
\* snapshot is in spinning or settlement with an empty list while current_bets
\* is non-empty, where current_bets is kept; the other table fields take the
\* snapshot's values; without a table snapshot none of them changes.
C16_SnapshotKeepsBetsWhileSpinning ==
    [][ArrivesOfType("initial_state") =>
         IF Arrived.frame.data.table_status = <<>>
         THEN /\ store'.currentBets = store.currentBets
              /\ store'.phase = store.phase
              /\ store'.timeRemaining = store.timeRemaining
              /\ store'.roundNumber = store.roundNumber
              /\ store'.seatedBots = store.seatedBots
         ELSE /\ store'.currentBets =
                   IF /\ Snapshot.phase \in {"spinning", "settlement"}
                      /\ Snapshot.current_bets = <<>>
                      /\ store.currentBets # <<>>
                   THEN store.currentBets
                   ELSE Snapshot.current_bets
              /\ store'.phase = Snapshot.phase
              /\ store'.timeRemaining = Snapshot.time_remaining
              /\ store'.roundNumber = Snapshot.round_number
              /\ store'.seatedBots = Snapshot.seated_bots
      ]_vars

\* A bet was shown and a spinning snapshot with an empty list arrived: the bet
\* is still shown, the rest of the table is the snapshot's.
C16_Witness ==
    /\ Len(recv) = 2
    /\ \A i \in 1 .. 2 : recv[i].src = "ws"
    /\ recv[1].frame = FNewBet(<<B1>>)
    /\ recv[2].frame = FInitial(<<Status("spinning", 3, 47, <<"rgpt">>, <<>>)>>, <<>>)
    /\ store.currentBets = <<B1>>
    /\ store.phase = "spinning" /\ store.roundNumber = 47

\* The round_result that arrives is for another round than latest_result's.
NewResultArrives ==
    /\ ArrivesOfType("round_result")
    /\ \/ store.latestResult = <<>>
       \/ Arrived.frame.data.round_number # store.latestResult[1].round_number

\* current_bets goes from non-empty to empty.
BetsEmptied == store.currentBets # <<>> /\ store'.currentBets = <<>>

\* C17: a non-duplicate round_result always empties current_bets, and nothing
\* else turns a non-empty current_bets into an empty one.
C17_OnlyResultClearsBets ==
    [][/\ NewResultArrives => store'.currentBets = <<>>
       /\ BetsEmptied => NewResultArrives
      ]_vars

\* A phase_change, or an initial_state with a table snapshot, that carries an
\* empty bet list in a phase other than spinning and settlement
EmptyTableArrives ==
    \/ /\ ArrivesOfType("phase_change")
       /\ Arrived.frame.data.current_bets = <<>>
       /\ Arrived.frame.data.phase \notin {"spinning", "settlement"}
    \/ /\ ArrivesOfType("initial_state")
       /\ Arrived.frame.data.table_status # <<>>
       /\ Snapshot.current_bets = <<>>
       /\ Snapshot.phase \notin {"spinning", "settlement"}

\* C17, amended: a non-duplicate round_result always empties current_bets;
\* besides it, only a phase_change or snapshot with an empty bet list outside
\* spinning and settlement turns a non-empty current_bets into an empty one.
C17_ResultOrEmptyTableClearsBets ==
    [][/\ NewResultArrives => store'.currentBets = <<>>
       /\ BetsEmptied => (NewResultArrives \/ EmptyTableArrives)
       /\ (EmptyTableArrives /\ store.currentBets # <<>>) => BetsEmptied
      ]_vars

\* Two bets were shown and a betting phase_change with an empty list, not a
\* result, cleared them.
C17_Witness ==
    /\ Len(recv) = 3
    /\ \A i \in 1 .. 3 : recv[i].src = "ws"
    /\ recv[1].frame = FNewBet(<<B1>>)
    /\ recv[2].frame = FNewBet(<<B2>>)
    /\ Replay(2).currentBets = <<B1, B2>>
    /\ recv[3].frame = FPhase("betting", 30, 48, <<"rgpt", "claw">>, <<>>)
    /\ store.currentBets = <<>>
    /\ store.latestResult = <<>>

\* The round_results of the first n log entries that were not duplicates of
\* the one recorded before them, oldest first
RECURSIVE AppliedResults(_)
AppliedResults(n) ==
    IF n = 0 THEN <<>>
    ELSE LET prev == AppliedResults(n - 1)
         IN  IF n \notin ResultEntries THEN prev
             ELSE IF /\ prev # <<>>
                     /\ prev[Len(prev)].round_number = recv[n].frame.data.round_number
                  THEN prev
                  ELSE Append(prev, recv[n].frame.data)

\* The result numbers of the last HISTORY_CAP entries of a sequence of
\* results, newest first
NewestFirst(applied) ==
    LET n == IF Len(applied) < HISTORY_CAP THEN Len(applied) ELSE HISTORY_CAP
    IN  [i \in 1 .. n |-> applied[Len(applied) - i + 1].result_number]

\* C18: result_history never holds more than 20 entries, and it is the result
\* numbers of the most recently applied non-duplicate results, newest first:
\* all of them up to 20, the 20 most recent beyond.
C18_HistoryBounded ==
    /\ Len(store.resultHistory) <= HISTORY_CAP
    /\ store.resultHistory = NewestFirst(AppliedResults(Len(recv)))

\* More than 20 results were applied, one of them delivered twice: the history
\* holds 20 entries, the newest in front, and no longer the first round's.
C18_Witness ==
    /\ Len(AppliedResults(Len(recv))) > HISTORY_CAP
    /\ Len(recv) > Len(AppliedResults(Len(recv)))
    /\ Len(store.resultHistory) = HISTORY_CAP
    /\ store.resultHistory[1] = ResultOf(store.latestResult[1].round_number)
    /\ \A i \in 1 .. HISTORY_CAP : store.resultHistory[i] # ResultOf(1)

\* C19: an initial_state snapshot never changes latest_result or
\* result_history; with result 17 of round 47 applied, whatever drops,
\* reconnects, snapshots and re-deliveries of that round follow,
\* latest_result stays at round 47 and the history holds one 17.
C19_SnapshotKeepsResults ==
    [][/\ ArrivesOfType("initial_state") =>
            /\ store'.latestResult = store.latestResult
            /\ store'.resultHistory = store.resultHistory
       /\ store.latestResult # <<>> =>
            /\ store'.latestResult # <<>>
            /\ store'.latestResult[1].round_number = 47
            /\ store'.resultHistory = <<17>>
      ]_vars

\* The result of round 47 was applied, the first connection dropped, the
\* reconnect timer opened the second one, and the snapshot of round 47 was the
\* last thing received on it.
C19_Witness ==
    /\ manualConnects = 0
    /\ wsRef = 2 /\ sock[2].readyState = "OPEN"
    /\ sock[1].readyState = "FREE"
    /\ lastEvent = "message"
    /\ Len(recv) = 2
    /\ recv[1].frame = Result47 /\ recv[1].tracked
    /\ recv[2].frame = Snapshot47 /\ recv[2].tracked
    /\ store.latestResult # <<>> /\ store.latestResult[1].round_number = 47
    /\ store.resultHistory = <<17>>
    /\ store.phase = "settlement"

ResponseArrives == Len(recv') = Len(recv) + 1 /\ recv'[Len(recv')].src = "rest"

\* The leaderboard the event of this step carries: <<>> when it carries none
CarriedLeaderboard ==
    IF ResponseArrives THEN Arrived.frame
    ELSE IF /\ FrameArrives
            /\ Arrived.tracked
            /\ Arrived.frame.wellFormed
            /\ Arrived.frame.data.type \in {"initial_state", "round_result"}
         THEN Arrived.frame.data.leaderboard
         ELSE <<>>

\* C21: an event that carries a leaderboard replaces the shown one by it,
\* entry for entry; every other event leaves the leaderboard as it was.
C21_LeaderboardReplaced ==
    [][store'.leaderboard =
         IF CarriedLeaderboard # <<>> THEN CarriedLeaderboard[1] ELSE store.leaderboard
      ]_vars

\* The startup fetch showed two bots; a result carrying a leaderboard of one
\* bot replaced it, and the bot it does not list is gone.
C21_Witness ==
    /\ Len(recv) = 2
    /\ recv[1].src = "rest" /\ recv[1].frame = <<LbB>>
    /\ recv[2].src = "ws" /\ recv[2].frame = FResult(47, 17, <<B1Paid>>, <<LbA>>)
    /\ store.leaderboard = LbA

---------------------------------------------------------------------------
(* Properties of the wheel *)

\* a and b are the same angle modulo a full turn.
Congruent(a, b) == (a - b) % FULL_TURN = 0

\* The wheel angle at which the centre of the pocket at index idx is under the pointer
PocketAtPointer(idx) == POINTER_ANGLE - idx * SEG_ANGLE - SEG_ANGLE \div 2

\* The step mounts the wheel or renders it with new props.
RenderStep == wheel'.mounted /\ (~wheel.mounted \/ travel'.renders = travel.renders + 1)

\* The step computes a target angle, for a number of the wheel.
TargetComputed ==
    /\ RenderStep
    /\ SetsTarget(wheel')
    /\ indexOf(wheel'.resultNumber[1]) # -1

\* C22: the target computed for the number at index i is congruent, modulo a
\* full turn, to pointer - i*w - w/2, and lies at least three full turns
\* beyond the current angle.
C22_TargetAngle ==
    [][TargetComputed =>
         LET target == wheel'.targetAngleRef[1]
         IN  /\ Congruent(target, PocketAtPointer(indexOf(wheel'.resultNumber[1])))
             /\ target - wheel.angleRef >= MIN_ROTATIONS * FULL_TURN
      ]_vars

\* The wheel had come to rest on 17, span freely for two frames and was given
\* 17 again: the pocket position lies two steps below the current angle,
\* and the target is that position four turns on.
C22_Witness ==
    /\ wheel.resultNumber = <<17>>
    /\ travel.age = 0 /\ travel.renders = 2
    /\ wheel.targetAngleRef # <<>>
    /\ wheel.targetAngleRef[1] - wheel.angleRef = 4 * FULL_TURN - 2 * FREE_SPIN_STEP

\* The step is a frame in which the homing ends: the target is cleared by draw().
HomingCompletes ==
    /\ ~RenderStep
    /\ wheel.targetAngleRef # <<>>
    /\ wheel'.targetAngleRef = <<>>

\* C23: when the homing on a number of the wheel completes, the centre of that
\* number's pocket is at the pointer, modulo a full turn, and the wheel has
\* travelled at least three full turns forward since the result was supplied.
C23_HomingConverges ==
    [][(HomingCompletes /\ indexOf(travel.homingOn[1]) # -1) =>
         /\ Congruent(wheel'.angleRef, PocketAtPointer(indexOf(travel.homingOn[1])))
         /\ wheel'.angleRef - travel.angleAtSupply >= MIN_ROTATIONS * FULL_TURN
      ]_vars

\* After a free spin the wheel was given 26 and has come to rest: the last
\* pocket of the wheel is under the pointer, more than three turns on.
C23_Witness ==
    /\ AtRest(wheel)
    /\ wheel.resultNumber = <<26>> /\ travel.homingOn = <<26>>
    /\ travel.renders >= 1
    /\ travel.angleAtSupply = MaxSpinFrames * FREE_SPIN_STEP
    /\ travel.age > 100
    /\ Congruent(wheel.angleRef, PocketAtPointer(36))
    /\ wheel.angleRef - travel.angleAtSupply >= MIN_ROTATIONS * FULL_TURN

\* C24: a result number that is no pocket of the wheel makes the target the
\* current angle; the next frame clears the target and the angle is still the
\* one the wheel had when the number was supplied.
C24_UnknownNumberNoMove ==
    [][/\ (RenderStep /\ SetsTarget(wheel') /\ indexOf(wheel'.resultNumber[1]) = -1) =>
            /\ wheel'.targetAngleRef = <<wheel.angleRef>>
            /\ wheel'.angleRef = wheel.angleRef
       /\ (~RenderStep /\ wheel.targetAngleRef # <<>> /\ indexOf(travel.homingOn[1]) = -1) =>
            /\ wheel'.targetAngleRef = <<>>
            /\ wheel'.angleRef = wheel.angleRef
            /\ wheel'.angleRef = travel.angleAtSupply
      ]_vars

\* The wheel span freely, was given 37 and drew one frame: it stands where it
\* was, with no target.
C24_Witness ==
    /\ wheel.resultNumber = <<37>> /\ travel.homingOn = <<37>>
    /\ ~wheel.spinning
    /\ AtRest(wheel)
    /\ travel.age = 1
    /\ wheel.angleRef = travel.angleAtSupply
    /\ wheel.angleRef = 2 * FREE_SPIN_STEP

\* C25: no step makes current_angle smaller, whatever the frames and the
\* changes of the two props.
C25_AngleNeverDecreases == [][wheel'.angleRef >= wheel.angleRef]_vars

\* The wheel span freely, was given a result and is homing on it: the angle
\* has grown in both modes and the target is still ahead.
C25_Witness ==
    /\ wheel.targetAngleRef # <<>>
    /\ travel.angleAtSupply >= FREE_SPIN_STEP
    /\ travel.age >= 2
    /\ wheel.angleRef > travel.angleAtSupply
    /\ wheel.targetAngleRef[1] > wheel.angleRef

\* The step is an animation frame.
FrameStep == wheel.mounted /\ ~RenderStep /\ hookVars' = hookVars

\* What a frame of homing adds to the angle
HomingMove(w) ==
    LET remaining == w.targetAngleRef[1] - w.angleRef
    IN  IF Abs(remaining) < EPSILON THEN remaining ELSE Ease(remaining)

\* C26: a frame applies at most one of the two updates: with a target set, the
\* homing update and nothing else, also while the free-spin flag is on; with
\* no target, the free-spin step when the flag is on and nothing otherwise.
C26_OneModePerFrame ==
    [][FrameStep =>
         wheel'.angleRef - wheel.angleRef =
            IF wheel.targetAngleRef # <<>> THEN HomingMove(wheel)
            ELSE IF wheel.spinningRef THEN FREE_SPIN_STEP
            ELSE 0
      ]_vars

\* The first frame after a result ended a free spin: the free-spin flag is
\* still on, and the wheel has moved by the homing step alone.
C26_Witness ==
    /\ wheel.targetAngleRef # <<>>
    /\ wheel.spinningRef
    /\ travel.age = 1
    /\ travel.angleAtSupply = 2 * FREE_SPIN_STEP
    /\ wheel.angleRef =
          travel.angleAtSupply + Ease(wheel.targetAngleRef[1] - travel.angleAtSupply)

---------------------------------------------------------------------------
(* Properties of the store, continued *)

\* C27: a non-duplicate round_result puts its result number in front of
\* result_history (cut to 20), makes latest_result the event's result, sets
\* the phase to settlement, empties current_bets, and replaces the leaderboard
\* only when the event carries one.
C27_ResultApplied ==
    [][NewResultArrives =>
         LET data == Arrived.frame.data
             history == <<data.result_number>> \o store.resultHistory
         IN  /\ store'.resultHistory =
                   SubSeq(history, 1, IF Len(history) < HISTORY_CAP
                                      THEN Len(history) ELSE HISTORY_CAP)
             /\ store'.latestResult # <<>>
             /\ \A f \in DOMAIN store'.latestResult[1] :
                   store'.latestResult[1][f] = data[f]
             /\ {"round_number", "result_number", "bets"} \subseteq
                   DOMAIN store'.latestResult[1]
             /\ store'.phase = "settlement"
             /\ store'.currentBets = <<>>
             /\ store'.leaderboard =
                   IF data.leaderboard # <<>> THEN data.leaderboard[1] ELSE store.leaderboard
      ]_vars

\* In a betting phase with a bet shown, after result 17 of round 47: the
\* result of round 48, which carries no leaderboard, was applied.
C27_Witness ==
    /\ Len(recv) = 3
    /\ \A i \in 1 .. 3 : recv[i].src = "ws"
    /\ recv[1].frame = FResult(47, 17, <<B1Paid>>, <<LbA>>)
    /\ recv[2].frame = FPhase("betting", 20, 48, <<"rgpt", "claw">>, <<B2>>)
    /\ recv[3].frame = FResult(48, 0, <<>>, <<>>)
    /\ store.resultHistory = <<0, 17>>
    /\ store.latestResult[1].round_number = 48
    /\ store.phase = "settlement"
    /\ store.currentBets = <<>>
    /\ store.leaderboard = LbA

---------------------------------------------------------------------------
(* Properties of the wheel, continued *)

\* C28: with a target set and the props no longer changing, after finitely
\* many frames the remaining distance is below epsilon; that frame sets the
\* angle to the target exactly, clears the target and switches the free spin
\* off, and from then on frames leave the angle as it is.
C28_HomingTerminates ==
    /\ \A n \in 0 .. MaxRenders + 1 :
          (wheel.targetAngleRef # <<>> /\ travel.renders = n)
             ~> (travel.renders > n \/ AtRest(wheel))
    /\ [][HomingCompletes =>
            /\ Abs(wheel.targetAngleRef[1] - wheel.angleRef) < EPSILON
            /\ wheel'.angleRef = wheel.targetAngleRef[1]
            /\ AtRest(wheel')
         ]_vars
    /\ [][(FrameStep /\ AtRest(wheel)) => wheel' = wheel]_vars

\* The homing on 17 took more than two hundred frames and has ended: the
\* wheel is at rest three turns and more from where it started.
C28_Witness ==
    /\ AtRest(wheel)
    /\ travel.homingOn = <<17>>
    /\ travel.angleAtSupply = 0
    /\ travel.age > 200
    /\ wheel.angleRef >= MIN_ROTATIONS * FULL_TURN

---------------------------------------------------------------------------
(* Properties of the hook and the store together *)

\* C29: once in settlement, the phase changes only in a step that applies a
\* phase_change or a snapshot; no close, error, reconnect timer, teardown or
\* other frame takes the view out of settlement.
C29_SettlementHasNoTimeout ==
    [][(store.phase = "settlement" /\ store'.phase # "settlement") =>
         \/ ArrivesOfType("phase_change")
         \/ ArrivesOfType("initial_state") /\ Arrived.frame.data.table_status # <<>>
      ]_vars

\* The result of round 47 put the view in settlement; the connection dropped
\* and the reconnect timer opened a new one, and the view is in settlement still.
C29_Witness ==
    /\ store.phase = "settlement"
    /\ Len(recv) = 1 /\ recv[1].frame = Result47
    /\ lastEvent = "open"
    /\ manualConnects = 0
    /\ wsRef = 2 /\ sock[2].readyState = "OPEN"

---------------------------------------------------------------------------
(* The connection manager as a state machine *)

\* The connection state the hook is in
ConnectionState ==
    IF TrackedIs({"CONNECTING"}) THEN "Connecting"
    ELSE IF TrackedIs({"OPEN"}) THEN "Connected"
    ELSE IF lifecycle = "disposed" THEN "TornDown"
    ELSE "Disconnected"

Cycle ==
    { <<"Disconnected", "Connecting">>, <<"Connecting", "Connected">>,
      <<"Connected", "Disconnected">>, <<"Connecting", "Disconnected">> }

---------------------------------------------------------------------------
(* The connected flag and the reconnect timers *)

\* C31: whenever the view's connected flag is true, a tracked connection
\* exists and is open; so the flag is false after teardown and after
\* connect() has retired an open connection whose replacement has not opened.
C31_ConnectedOnlyWhileOpen == store.connected => TrackedIs({"OPEN"})

Unremembered == {t \in timers : t.id # reconnectTimerRef}

\* A reconnect timer fires after teardown
FiresAfterTeardown == lifecycle = "disposed" /\ lastEvent' = "timer" /\ timers' # timers

---------------------------------------------------------------------------
(* Invariants of the view *)

\* C33: current_bets never holds two entries with the same identity tuple
\* (bot_id, bet_type, bet_value, amount), whatever the order in which
\* snapshots, phase changes, bets and results with duplicate-free bet lists
\* arrive.
C33_NoDuplicateBets ==
    \A i, j \in 1 .. Len(store.currentBets) :
        Identity(store.currentBets[i]) = Identity(store.currentBets[j]) => i = j

\* A snapshot brought one bet, a new_bet another, and the tuple of the second
\* came again with a different payout: two entries, one for each tuple.
C33_Witness ==
    /\ Len(recv) = 3
    /\ recv[1].src = "ws"
    /\ recv[1].frame = FInitial(<<Status("betting", 10, 48, <<"rgpt", "claw">>, <<B2>>)>>, <<LbA>>)
    /\ recv[2].src = "ws" /\ recv[2].frame = FNewBet(<<B1>>)
    /\ recv[3].src = "ws" /\ recv[3].frame = FNewBet(<<B1Paid>>)
    /\ store.currentBets = <<B2, B1>>

\* C34: whenever latest_result is set, the first entry of result_history is
\* latest_result.result_number.
C34_HistoryHeadIsLatest ==
    store.latestResult # <<>> =>
        /\ store.resultHistory # <<>>
        /\ store.resultHistory[1] = store.latestResult[1].result_number

\* The results of rounds 47 and 48 were applied and the result of round 47
\* came again; it is not the latest any more, so it was applied again: it is
\* the latest result, and its number is at the head of the history.
C34_Witness ==
    /\ Len(recv) = 3
    /\ recv[1].src = "ws" /\ recv[1].frame = FResult(47, 17, <<B1Paid>>, <<LbA>>)
    /\ recv[2].src = "ws" /\ recv[2].frame = FResult(48, 0, <<>>, <<>>)
    /\ recv[3].src = "ws" /\ recv[3].frame = FResult(47, 17, <<B1Paid>>, <<LbA>>)
    /\ store.latestResult # <<>>
    /\ store.latestResult[1].round_number = 47
    /\ store.resultHistory = <<17, 0, 17>>

---------------------------------------------------------------------------
(* Properties of the wheel in the dashboard *)

\* The latest result is of a round before the one the table is in
ResultOfEarlierRound(st) ==
    st.latestResult # <<>> /\ st.latestResult[1].round_number < st.roundNumber

\* The spinning prop goes from true to false in a render that brings no new
\* result: latest_result is what it was during the spin, of an earlier round.
SpinEndsBeforeResult ==
    /\ RenderStep
    /\ wheel.spinning /\ ~wheel'.spinning
    /\ wheel'.resultNumber = wheel.resultNumber
    /\ ResultOfEarlierRound(store')

\* C35: the wheel never homes on the result of an earlier round: when the
\* spinning prop goes from true to false while latest_result is still the
\* previous round's, no target angle is set.
C35_NoHomingOnEarlierResult ==
    [][SpinEndsBeforeResult => wheel'.targetAngleRef = <<>>]_vars

---------------------------------------------------------------------------
(* Further properties of the wheel *)

\* C36: the wheel is at rest when nothing drives it: a frame in which the
\* spinning prop is false and no target angle is set leaves the angle as it
\* is; so a spin that ends without a result does not go on spinning.
C36_AtRestWhenNotDriven ==
    [][(FrameStep /\ ~wheel.spinning /\ wheel.targetAngleRef = <<>>)
          => wheel'.angleRef = wheel.angleRef
      ]_vars

\* The spinning prop goes from false to true while a target is set
SpinRaisedWhileHoming ==
    RenderStep /\ ~wheel.spinning /\ wheel'.spinning /\ wheel.targetAngleRef # <<>>

\* A step sets a target angle
TargetSet == wheel'.targetAngleRef # <<>> /\ wheel'.targetAngleRef # wheel.targetAngleRef

\* C37: raising the spinning prop while the wheel is homing abandons the
\* homing: the target is cleared and the wheel free-spins from the angle it
\* has, for as long as the prop is true; a target is set again only by a
\* render with the prop false and a result supplied.
C37_SpinAbandonsHoming ==
    /\ [][SpinRaisedWhileHoming =>
            /\ wheel'.targetAngleRef = <<>>
            /\ wheel'.spinningRef
            /\ wheel'.angleRef = wheel.angleRef
         ]_vars
    /\ [][(FrameStep /\ wheel.spinning /\ wheel' # wheel) =>
            /\ wheel'.angleRef = wheel.angleRef + FREE_SPIN_STEP
            /\ wheel'.targetAngleRef = <<>>
         ]_vars
    /\ [][TargetSet => (RenderStep /\ ~wheel'.spinning /\ wheel'.resultNumber # <<>>)]_vars

\* A homing was abandoned before three turns were made, the wheel span
\* freely, and the prop went back to false with 26 supplied: a new target.
C37_Witness ==
    /\ travel.renders = 2
    /\ ~wheel.spinning /\ wheel.spinningRef
    /\ travel.homingOn = <<26>>
    /\ wheel.targetAngleRef = <<getTargetAngle(26, travel.angleAtSupply)>>
    /\ travel.angleAtSupply % FREE_SPIN_STEP # 0
    /\ travel.angleAtSupply < MIN_ROTATIONS * FULL_TURN
    /\ travel.angleAtSupply > MaxSpinFrames * FREE_SPIN_STEP

Remaining(w) == w.targetAngleRef[1] - w.angleRef

\* A frame of a homing that does not end in this frame
HomingFrame ==
    /\ FrameStep /\ wheel' # wheel
    /\ wheel.targetAngleRef # <<>> /\ wheel'.targetAngleRef # <<>>

\* C38: homing never overshoots: while a target is set the angle is at most
\* the target, and from one frame to the next the remaining distance to the
\* same target gets strictly smaller, until the snap.
C38_NoOvershoot ==
    /\ [](wheel.targetAngleRef # <<>> => wheel.angleRef <= wheel.targetAngleRef[1])
    /\ [][HomingFrame =>
            /\ wheel'.targetAngleRef = wheel.targetAngleRef
            /\ Remaining(wheel') < Remaining(wheel)
            /\ Remaining(wheel') >= 0
         ]_vars

\* Thirty frames into a homing on 17: the wheel has moved and is short of the target.
C38_Witness ==
    /\ wheel.targetAngleRef # <<>>
    /\ travel.homingOn = <<17>>
    /\ travel.age = MaxSpinFrames
    /\ wheel.angleRef > travel.angleAtSupply
    /\ Remaining(wheel) > 0
    /\ Remaining(wheel) < MIN_ROTATIONS * FULL_TURN

\* C39: the target computed for a number of the wheel is the smallest angle
\* aligned with its pocket that is three full turns or more beyond the
\* current angle: it lies at least three and less than four full turns
\* ahead.  The current angle is never negative.
C39_SmallestAlignedTarget ==
    /\ [](wheel.angleRef >= 0)
    /\ [][TargetComputed =>
            LET ahead == wheel'.targetAngleRef[1] - wheel.angleRef
            IN  /\ Congruent(wheel'.targetAngleRef[1],
                             PocketAtPointer(indexOf(wheel'.resultNumber[1])))
                /\ ahead >= MIN_ROTATIONS * FULL_TURN
                /\ ahead < (MIN_ROTATIONS + 1) * FULL_TURN
         ]_vars

\* After thirty frames of free spin 26 is supplied, the last pocket of the
\* wheel: the target is its position six turns on, between three and four
\* turns ahead of the angle.
C39_Witness ==
    /\ travel.homingOn = <<26>>
    /\ travel.age = 0
    /\ wheel.angleRef = MaxSpinFrames * FREE_SPIN_STEP
    /\ wheel.targetAngleRef = <<PocketAtPointer(indexOf(26)) + 6 * FULL_TURN>>
    /\ Remaining(wheel) > MIN_ROTATIONS * FULL_TURN
    /\ Remaining(wheel) < (MIN_ROTATIONS + 1) * FULL_TURN

====
